---- MODULE Spec2Model ----
(***************************************************************************)
(* A model of rbtools/clients/git.py (GitClient):                          *)
(*   - make_svn_diff, the translator of a git diff into the SVN dialect    *)
(*     (specification SpecSvn);                                            *)
(*   - get_repository_info, the upstream detector (SpecRepo);              *)
(*   - diff, diff_between_revisions, make_diff and _set_guesses, the       *)
(*     revision resolver, diff producer and guesser (SpecDiff);            *)
(*   - update_commits_with_reviewer_info, the commit annotator, run after  *)
(*     the diff operations that record its range (SpecAnnot).              *)
(* Text is modelled as sequences: a line is the sequence of its            *)
(* characters, a free text is a sequence of words, a ref name such as      *)
(* origin/master is the sequence of its '/'-separated parts.               *)
(***************************************************************************)
EXTENDS Integers, Sequences, FiniteSets, TLC

VARIABLES
    \* ---- make_svn_diff ----
    sections,      \* the file sections of the git diff handed to the translator
    diff_lines,    \* the lines of that diff (git.py:374-377, split_lines)
    svn_rev,       \* what "git svn find-rev <parent_branch>" prints, stripped
    svn_pc,        \* "start" | "loop" | "done"
    svn_i,         \* index of the next line of the for loop
    diff_data,     \* the output so far, one element per emitted line
    filename,      \* the local variable filename
    newfile,       \* the local variable newfile
    svn_ret,       \* "pending" | "None" | "diff_data"
    \* ---- get_repository_info ----
    env,           \* the repository, configuration and options the call reads
    repo_pc,       \* "start" | "done"
    repo_ret,      \* what the call returned, or how it was left
    type,          \* self.type
    upstream_branch, \* self.upstream_branch
    head_ref,      \* self.head_ref
    \* ---- diff, diff_between_revisions, _set_guesses ----
    head,          \* the commit HEAD resolves to
    dirty,         \* TRUE when the working tree differs from HEAD's tree
    svn_revs,      \* the commits "git svn find-rev" maps to a bridge revision
    opts,          \* options: parent_branch, guess_summary, guess_description,
                   \* summary, description
    merge_base,    \* self.merge_base
    rev_range_for_diff, \* self.rev_range_for_diff
    alive,         \* FALSE once die() or an uncaught exception ended the process
    last,          \* the last diff operation: its inputs and what it returned
    \* ---- update_commits_with_reviewer_info ----
    notes,         \* per commit, the lines of its note (<<>>: no note)
    calls          \* the annotator calls made so far, oldest first

svn_vars  == <<sections, diff_lines, svn_rev, svn_pc, svn_i, diff_data, filename,
               newfile, svn_ret>>
repo_vars == <<env, repo_pc, repo_ret>>
self_vars == <<type, upstream_branch, head_ref>>
diff_vars == <<head, dirty, svn_revs, opts, merge_base,
               rev_range_for_diff, alive, last>>
note_vars == <<notes, calls>>
vars      == <<svn_vars, repo_vars, self_vars, diff_vars, note_vars>>

(***************************************************************************)
(* Text helpers: Python's str.startswith, str.strip and str.split on a     *)
(* line held as a sequence of characters.                                  *)
(***************************************************************************)
StartsWith(s, p) == Len(s) >= Len(p) /\ SubSeq(s, 1, Len(p)) = p

IsSpace(c) == c \in {" ", "\n", "\t"}

RECURSIVE LStrip(_)
LStrip(s) == IF s # <<>> /\ IsSpace(Head(s)) THEN LStrip(Tail(s)) ELSE s

RECURSIVE RStrip(_)
RStrip(s) ==
    IF s # <<>> /\ IsSpace(s[Len(s)]) THEN RStrip(SubSeq(s, 1, Len(s) - 1)) ELSE s

Strip(s) == RStrip(LStrip(s))

\* s.split(sep): the pieces of s between the occurrences of the character sep
RECURSIVE SplitAcc(_, _, _)
SplitAcc(s, sep, cur) ==
    IF s = <<>> THEN <<cur>>
    ELSE IF Head(s) = sep THEN <<cur>> \o SplitAcc(Tail(s), sep, <<>>)
    ELSE SplitAcc(Tail(s), sep, Append(cur, Head(s)))

Split(s, sep) == SplitAcc(s, sep, <<>>)

(***************************************************************************)
(* make_svn_diff (git.py:385-439).                                         *)
(* The input is what "git diff --no-color --no-prefix --no-ext-diff -r -u" *)
(* prints (git.py:374-377): one section per changed file.  A section is    *)
(* [kind, path, hunk]; a hunk line is [sign, text] and is printed as its   *)
(* sign followed by the text of the source line it adds or removes.        *)
(***************************************************************************)
MaxSections == 3

SeparatorWidth == 67

NL == <<"\n">>

DevNull == <<"/", "d", "e", "v", "/", "n", "u", "l", "l">>

Minus4 == <<"-", "-", "-", " ">>

Plus4 == <<"+", "+", "+", " ">>

DiffPrefix == <<"d", "i", "f", "f", " ">>

IndexPrefix == <<"i", "n", "d", "e", "x", " ">>

NewFilePrefix == <<"n", "e", "w", " ", "f", "i", "l", "e", " ", "m", "o", "d", "e">>

DeletedFilePrefix ==
    <<"d", "e", "l", "e", "t", "e", "d", " ", "f", "i", "l", "e", " ", "m", "o", "d", "e">>

BinaryPrefix == <<"B", "i", "n", "a", "r", "y", " ", "f", "i", "l", "e", "s", " ">>

HunkMark == <<"@", "@">>

\* the lines git prints for one hunk line: the sign, then the source line's text
HunkLine(h) == <<h.sign>> \o h.text \o NL

RECURSIVE HunkLines(_)
HunkLines(hs) == IF hs = <<>> THEN <<>> ELSE <<HunkLine(Head(hs))>> \o HunkLines(Tail(hs))

\* the lines git prints for one file section
SectionLines(sec) ==
    LET p    == sec.path
        dl   == DiffPrefix \o <<"-", "-", "g", "i", "t", " ">> \o p \o <<" ">> \o p \o NL
        il   == IndexPrefix \o <<"1", ".", ".", "2">> \o NL
        body == <<HunkMark \o NL>> \o HunkLines(sec.hunk)
    IN  CASE sec.kind = "modified" ->
                <<dl, il, Minus4 \o p \o NL, Plus4 \o p \o NL>> \o body
          [] sec.kind = "added" ->
                <<dl, NewFilePrefix \o NL, il, Minus4 \o DevNull \o NL, Plus4 \o p \o NL>>
                \o body
          [] sec.kind = "deleted" ->
                <<dl, DeletedFilePrefix \o NL, il, Minus4 \o p \o NL,
                  Plus4 \o DevNull \o NL>> \o body
          [] sec.kind = "binary" ->
                <<dl, il, BinaryPrefix \o p \o <<" ", "a", "n", "d", " ">> \o p \o NL>>

RECURSIVE DiffOutput(_)
DiffOutput(secs) ==
    IF secs = <<>> THEN <<>> ELSE SectionLines(Head(secs)) \o DiffOutput(Tail(secs))

\* The sections the model feeds the translator.  The second and fourth have a
\* hunk line whose source text starts with "-- " or "++ ": removing the line
\* "-- q" of a file prints "--- q", adding the line "++ q" prints "+++ q".
SectionKinds ==
    { [kind |-> "modified", path |-> <<"f">>, hunk |-> <<[sign |-> "+", text |-> <<"x">>]>>],
      [kind |-> "modified", path |-> <<"f">>,
       hunk |-> <<[sign |-> "-", text |-> <<"-", "-", " ", "q">>]>>],
      [kind |-> "added", path |-> <<"g">>, hunk |-> <<[sign |-> "+", text |-> <<"x">>]>>],
      [kind |-> "added", path |-> <<"g">>,
       hunk |-> <<[sign |-> "+", text |-> <<"+", "+", " ", "q">>]>>],
      [kind |-> "deleted", path |-> <<"h">>, hunk |-> <<[sign |-> "-", text |-> <<"x">>]>>],
      [kind |-> "binary", path |-> <<"b">>, hunk |-> <<>>] }

SectionSeqs == UNION { [1..n -> SectionKinds] : n \in 1..MaxSections }

RECURSIVE Rep(_, _)
Rep(c, n) == IF n = 0 THEN <<>> ELSE <<c>> \o Rep(c, n - 1)

\* "%s %s\t(%s)\n": a '---' or '+++' line of the output with its stamp
Stamped(mark, path, stamp) == mark \o path \o <<"\t", "(">> \o stamp \o <<")">> \o NL

RevisionStamp(r) == <<"revision ", r>>

WorkingCopyStamp == <<"working copy">>

\* One iteration of the for loop (git.py:400-437) on the line `line`, from the
\* locals st = [diff_data, filename, newfile].
SvnLoopBody(st, line, r) ==
    IF StartsWith(line, DiffPrefix) THEN
        [st EXCEPT !.diff_data = @ \o
            << <<"Index: ">> \o Split(line, " ")[3] \o NL,
               Rep("=", SeparatorWidth) \o NL >>]
    ELSE IF StartsWith(line, IndexPrefix) THEN st
    ELSE IF Strip(line) = Minus4 \o DevNull THEN [st EXCEPT !.newfile = TRUE]
    ELSE IF StartsWith(line, Minus4) THEN
        [st EXCEPT !.newfile = FALSE,
                   !.diff_data = Append(@, Stamped(Minus4, Strip(SubSeq(line, 5, Len(line))),
                                                    RevisionStamp(r)))]
    ELSE IF StartsWith(line, Plus4) THEN
        LET fn == Strip(SubSeq(line, 5, Len(line)))
        IN  IF st.newfile THEN
                [st EXCEPT !.filename = fn,
                           !.diff_data = @ \o <<Stamped(Minus4, fn, RevisionStamp("0")),
                                                Stamped(Plus4, fn, RevisionStamp("0"))>>]
            ELSE
                [st EXCEPT !.filename = fn,
                           !.diff_data = Append(@, Stamped(Plus4, fn, WorkingCopyStamp))]
    ELSE IF StartsWith(line, NewFilePrefix) THEN st
    ELSE IF StartsWith(line, BinaryPrefix) THEN
        [st EXCEPT !.diff_data = @ \o
            << <<"Cannot display: file marked as a binary type.">> \o NL,
               <<"svn:mime-type = application/octet-stream">> \o NL >>]
    ELSE [st EXCEPT !.diff_data = Append(@, line)]

\* rev = execute([git, "svn", "find-rev", parent_branch]).strip(); if not rev:
\* return None (git.py:391-398)
SvnFindRev ==
    /\ svn_pc = "start"
    /\ IF svn_rev = ""
       THEN /\ svn_pc' = "done"
            /\ svn_ret' = "None"
            /\ UNCHANGED <<diff_data, filename, newfile>>
       ELSE /\ svn_pc' = "loop"
            /\ diff_data' = <<>>
            /\ filename' = <<>>
            /\ newfile' = FALSE
            /\ UNCHANGED svn_ret
    /\ UNCHANGED <<sections, diff_lines, svn_rev, svn_i>>
    /\ UNCHANGED <<repo_vars, self_vars, diff_vars, note_vars>>

\* for line in diff_lines: ... (git.py:400-437)
SvnLine ==
    /\ svn_pc = "loop"
    /\ svn_i <= Len(diff_lines)
    /\ LET st == SvnLoopBody([diff_data |-> diff_data, filename |-> filename,
                              newfile |-> newfile], diff_lines[svn_i], svn_rev)
       IN  /\ diff_data' = st.diff_data
           /\ filename' = st.filename
           /\ newfile' = st.newfile
    /\ svn_i' = svn_i + 1
    /\ UNCHANGED <<sections, diff_lines, svn_rev, svn_pc, svn_ret>>
    /\ UNCHANGED <<repo_vars, self_vars, diff_vars, note_vars>>

\* return diff_data (git.py:439)
SvnReturn ==
    /\ svn_pc = "loop"
    /\ svn_i > Len(diff_lines)
    /\ svn_pc' = "done"
    /\ svn_ret' = "diff_data"
    /\ UNCHANGED <<sections, diff_lines, svn_rev, svn_i, diff_data, filename, newfile>>
    /\ UNCHANGED <<repo_vars, self_vars, diff_vars, note_vars>>

(***************************************************************************)
(* get_repository_info (git.py:136-286), in the three stretches of its     *)
(* code: finding the repository (137-169), SVN-bridge detection (176-237)  *)
(* and native classification (244-286).  env records what the call has     *)
(* read of the repository, its configuration and the options; a fact the   *)
(* code never reads on its path keeps its unread value.                    *)
(***************************************************************************)
NoEnv ==
    [ installed |-> "unread",       \* check_install: "git" | "git.cmd" | "none"
      git_dir_ok |-> FALSE,         \* rev-parse --git-dir names a directory
      core_bare |-> "unread",       \* config core.bare: "true" | "false" | "fail"
      repository_url |-> <<>>,      \* options.repository_url
      svn_dir |-> "unread",         \* <git_dir>/svn: "absent" | "empty" | "nonempty"
                                    \* (a fact of the repository, read or not)
      svn_info |-> {},              \* the lines of "git svn info": "root", "url", "uuid"
      parent_branch |-> <<>>,       \* options.parent_branch
      remote_branch |-> <<>>,       \* "Remote Branch:" of "git svn rebase -n"
      svn_version |-> <<>>,         \* "version a.b.c" of "git svn --version"
      svn_remote |-> FALSE,         \* config svn-remote.svn.url is set (a fact of
                                    \* the repository, read or not)
      merge |-> <<>>,               \* config branch.<head>.merge
      remote |-> "",                \* config branch.<head>.remote
      tracking |-> <<>>,            \* options.tracking
      url_of |-> [r \in {"origin", "up"} |-> <<>>] ]  \* config remote.<r>.url

RefsHeads == <<"refs", "heads">>

\* _strip_heads_prefix (git.py:26-28): re.sub(r'^refs/heads/', '', ref)
StripHeadsPrefix(ref) ==
    IF StartsWith(ref, RefsHeads) THEN SubSeq(ref, 3, Len(ref)) ELSE ref

\* is_valid_version (git.py:302-312)
IsValidVersion(actual, expected) ==
    \/ actual[1] > expected[1]
    \/ actual[1] = expected[1] /\ actual[2] > expected[2]
    \/ actual[1] = expected[1] /\ actual[2] = expected[2] /\ actual[3] >= expected[3]

MinSvnVersion == <<1, 5, 4>>

\* get_origin (git.py:288-300): <<upstream_branch, origin_url>>
GetOrigin(e, default_upstream_branch) ==
    LET ub == IF e.tracking # <<>> THEN e.tracking
              ELSE IF default_upstream_branch # <<>> THEN default_upstream_branch
              ELSE <<"origin", "master">>
        upstream_remote == Head(ub)
    IN  <<ub, IF upstream_remote \in DOMAIN e.url_of THEN e.url_of[upstream_remote]
              ELSE <<>> >>

\* str.rstrip('/')
RECURSIVE RStripSlash(_)
RStripSlash(u) ==
    IF u # <<>> /\ u[Len(u)] = "/" THEN RStripSlash(SubSeq(u, 1, Len(u) - 1)) ELSE u

\* os.path.abspath(git_dir)
AbsGitDir == <<"/", "repo", "/", ".git">>

\* mutant of SvnDetectionApplies: the metadata directory is only tested for
\* existence, not for being non-empty
SvnDetectionAppliesAnyDir(e) == e.repository_url = <<>> /\ e.svn_dir # "absent"

\* git.py:178-179: whether SVN-bridge detection is attempted
SvnDetectionApplies(e) == e.repository_url = <<>> /\ e.svn_dir = "nonempty"

\* mutant of SvnDetection: the else branch of git.py:217 hangs on the URL
\* test of git.py:188, so a root without a URL asks for an upgrade
SvnDetectionElseOnUrl(e) ==
    IF "root" \in e.svn_info THEN
        IF "url" \in e.svn_info THEN
            IF "uuid" \in e.svn_info THEN "svn" ELSE "native"
        ELSE IF e.svn_remote THEN "die" ELSE "native"
    ELSE "native"

\* git.py:180-237: the outcome of SVN-bridge detection once attempted:
\* "svn" (SVNRepositoryInfo returned), "die" (upgrade required) or "native"
\* (control reaches git.py:239).
SvnDetection(e) ==
    IF "root" \in e.svn_info THEN
        IF "url" \in e.svn_info /\ "uuid" \in e.svn_info THEN "svn" ELSE "native"
    ELSE IF /\ e.svn_version # <<>>
            /\ ~IsValidVersion(e.svn_version, MinSvnVersion)
            /\ e.svn_remote
         THEN "die"
         ELSE "native"

\* git.py:196-211: the SVN tracking branch
SvnUpstream(e) ==
    IF e.parent_branch # <<>> THEN e.parent_branch
    ELSE IF e.remote_branch # <<>> THEN e.remote_branch
    ELSE <<"master">>

\* git.py:244-257: the tracking branch of the current branch
TrackingBranch(e, href) ==
    IF href # <<>> /\ e.remote # "" /\ e.remote # "." /\ StripHeadsPrefix(e.merge) # <<>>
    THEN <<e.remote>> \o StripHeadsPrefix(e.merge)
    ELSE <<>>

\* git.py:259-278: <<url, upstream_branch>>
NativeOrigin(e, href) ==
    LET ub0 == TrackingBranch(e, href)
        o1  == GetOrigin(e, ub0)
        o2  == IF o1[2] = <<>> \/ StartsWith(o1[2], <<"fatal:">>)
               THEN GetOrigin(e, <<>>) ELSE o1
        url == RStripSlash(o2[2])
    IN  IF e.repository_url # <<>> THEN <<e.repository_url, o1[1]>>
        ELSE IF url = <<>> THEN <<AbsGitDir, <<o2[1][Len(o2[1])]>> >>
        ELSE <<url, o2[1]>>

HeadRefs == { <<>>, <<"refs", "heads", "topic">> }

Urls == { <<>>, <<"u">>, <<"u", "/">>, <<"fatal:", "x">> }

SvnVersions == { <<>>, <<1, 4, 9>>, <<1, 5, 3>>, <<1, 5, 4>>, <<2, 0, 0>> }

\* what git.py:137-153 reads
FindInputs ==
    { e \in { [NoEnv EXCEPT !.installed = i, !.git_dir_ok = g, !.core_bare = b] :
                i \in {"git", "git.cmd", "none"}, g \in BOOLEAN,
                b \in {"unread", "true", "false", "fail"} } :
        /\ e.git_dir_ok => e.installed # "none"
        /\ (e.core_bare # "unread") <=> e.git_dir_ok }

\* what git.py:176-235 reads, after e
SvnInputs(e) ==
    { f \in { [e EXCEPT !.repository_url = u, !.svn_dir = d, !.svn_info = i,
                        !.parent_branch = p, !.remote_branch = r,
                        !.svn_version = v, !.svn_remote = m] :
                u \in {<<>>, <<"U">>}, d \in {"absent", "empty", "nonempty"},
                i \in SUBSET {"root", "url", "uuid"}, p \in {<<>>, <<"pb">>},
                r \in {<<>>, <<"trunk">>}, v \in SvnVersions, m \in BOOLEAN } :
        LET reached == SvnDetectionApplies(f)
            found   == reached /\ SvnDetection(f) = "svn"
            noroot  == reached /\ "root" \notin f.svn_info
        IN  /\ ~reached => f.svn_info = {}
            /\ ~found => f.parent_branch = <<>>
            /\ ~(found /\ f.parent_branch = <<>>) => f.remote_branch = <<>>
            /\ noroot => f.svn_info = {}
            /\ ~noroot => f.svn_version = <<>> }

\* what git.py:245-270 reads, after e
NativeInputs(e, href) ==
    { f \in { [e EXCEPT !.merge = g, !.remote = r, !.tracking = t,
                        !.url_of = [x \in {"origin", "up"} |->
                                       IF x = "origin" THEN uo ELSE uu]] :
                g \in {<<>>, RefsHeads \o <<"master">>}, r \in {"", ".", "origin"},
                t \in {<<>>, <<"up", "dev">>, <<"local">>}, uo \in Urls, uu \in Urls } :
        href = <<>> => f.merge = <<>> /\ f.remote = "" }

\* git.py:137-169
RepoFind ==
    /\ repo_pc = "start"
    /\ \E e \in FindInputs :
        /\ env' = e
        /\ IF e.installed = "none" \/ ~e.git_dir_ok
           THEN repo_pc' = "done" /\ repo_ret' = "None" /\ UNCHANGED head_ref
           ELSE IF e.core_bare = "fail"
           THEN repo_pc' = "done" /\ repo_ret' = "die_execute" /\ UNCHANGED head_ref
           ELSE repo_pc' = "svn" /\ UNCHANGED repo_ret /\ head_ref' \in HeadRefs
    /\ UNCHANGED <<type, upstream_branch>>
    /\ UNCHANGED <<svn_vars, diff_vars, note_vars>>

\* git.py:176-237
RepoSvn ==
    /\ repo_pc = "svn"
    /\ \E e \in SvnInputs(env) :
        /\ env' = e
        /\ LET out == IF SvnDetectionApplies(e) THEN SvnDetection(e) ELSE "native"
           IN  CASE out = "svn" ->
                       /\ type' = "svn"
                       /\ upstream_branch' = SvnUpstream(e)
                       /\ repo_pc' = "done"
                       /\ repo_ret' = "SVNRepositoryInfo"
                 [] out = "die" ->
                       /\ repo_pc' = "done"
                       /\ repo_ret' = "die_upgrade"
                       /\ UNCHANGED <<type, upstream_branch>>
                 [] out = "native" ->
                       /\ repo_pc' = "native"
                       /\ UNCHANGED <<type, upstream_branch, repo_ret>>
    /\ UNCHANGED head_ref
    /\ UNCHANGED <<svn_vars, diff_vars, note_vars>>

\* git.py:239-286
RepoNative ==
    /\ repo_pc = "native"
    /\ \E e \in NativeInputs(env, head_ref) :
        /\ env' = e
        /\ LET o == NativeOrigin(e, head_ref)
           IN  /\ upstream_branch' = o[2]
               /\ IF o[1] # <<>>
                  THEN type' = "git" /\ repo_ret' = "RepositoryInfo"
                  ELSE UNCHANGED type /\ repo_ret' = "None"
    /\ repo_pc' = "done"
    /\ UNCHANGED head_ref
    /\ UNCHANGED <<svn_vars, diff_vars, note_vars>>

(***************************************************************************)
(* The repository the diff operations and the annotator run in.  Commits   *)
(* c0 <- c1 <- c2 <- c3 form the main line and c4 is a second child of c1; *)
(* the remote-tracking branch origin/master is at c1.  A revision given to *)
(* git is a ref: <<"HEAD">>, the symbolic head ref, <<"origin", "master">>,*)
(* a commit id <<c>>, or a name that resolves to nothing.                  *)
(***************************************************************************)
Parent == [c1 |-> "c0", c2 |-> "c1", c3 |-> "c2", c4 |-> "c1"]

Age == [c0 |-> 0, c1 |-> 1, c2 |-> 2, c3 |-> 3, c4 |-> 4]

Commits == DOMAIN Age

RemoteTip == "c1"

HeadName == <<"HEAD">>

BadRev == <<"nosuchrev">>

OriginMaster == <<"origin", "master">>

\* the commits reachable from c, c included
RECURSIVE Ancestors(_)
Ancestors(c) == IF c \in DOMAIN Parent THEN {c} \cup Ancestors(Parent[c]) ELSE {c}

\* the commit a ref resolves to, or "invalid"
Resolve(ref) ==
    IF ref = <<>> THEN "invalid"
    ELSE IF ref = HeadName \/ ref = head_ref THEN head
    ELSE IF ref = OriginMaster THEN RemoteTip
    ELSE IF Len(ref) = 1 /\ ref[1] \in Commits THEN ref[1]
    ELSE "invalid"

Valid(ref) == Resolve(ref) # "invalid"

\* the tree of a commit, and the tree in the working directory
TreeOf(c) == <<"tree", c>>

WorkTree == IF dirty THEN <<"tree", "uncommitted">> ELSE TreeOf(head)

\* the commits of s, oldest first (git rev-list --reverse, git log --reverse)
RECURSIVE OldestFirst(_)
OldestFirst(s) ==
    IF s = {} THEN <<>>
    ELSE LET c == CHOOSE x \in s : \A y \in s : Age[x] <= Age[y]
         IN  <<c>> \o OldestFirst(s \ {c})

\* the commits of the range a..b: reachable from b and not from a
RangeCommits(a, b) == OldestFirst(Ancestors(Resolve(b)) \ Ancestors(Resolve(a)))

\* What the process runner returns and when it ends the process is code of
\* rbtools.utils.process: a command that fails ends the process (die) unless
\* run with ignore_errors; then its output, the error text, is returned (as
\* git.py:147-150 relies on), or None with none_on_ignored_error.
ErrorText == <<"fatal:">>

Ok(out) == [ok |-> TRUE, out |-> out]

Failed == [ok |-> FALSE, out |-> ErrorText]

\* git merge-base a b: the id of the best common ancestor
GitMergeBase(a, b) ==
    IF Valid(a) /\ Valid(b)
    THEN LET common == Ancestors(Resolve(a)) \cap Ancestors(Resolve(b))
         IN  Ok(<<CHOOSE x \in common : \A y \in common : Age[y] <= Age[x]>>)
    ELSE Failed

\* git diff <rev_range>: "a..b" compares the trees of a and b, "a" alone
\* compares the tree of a with the working tree
GitDiff(ancestor, commit) ==
    IF commit # <<>> THEN
        IF Valid(ancestor) /\ Valid(commit)
        THEN Ok([from |-> TreeOf(Resolve(ancestor)), to |-> TreeOf(Resolve(commit))])
        ELSE Failed
    ELSE
        IF Valid(ancestor)
        THEN Ok([from |-> TreeOf(Resolve(ancestor)), to |-> WorkTree])
        ELSE Failed

\* git branch -r --contains r: the remote-tracking branches that contain r
GitBranchRContains(r) ==
    IF Valid(r)
    THEN Ok(IF Resolve(r) \in Ancestors(RemoteTip) THEN <<OriginMaster>> ELSE <<>>)
    ELSE Failed

\* git svn find-rev r: the bridge revision of r, empty when it has none
GitSvnFindRev(r) ==
    IF Valid(r) THEN Ok(IF Resolve(r) \in svn_revs THEN "7" ELSE "") ELSE Failed

\* git rev-list --reverse a..b, one commit id per line
GitRevList(a, b) == IF Valid(a) /\ Valid(b) THEN Ok(RangeCommits(a, b)) ELSE Failed

\* git log --reverse --pretty=format:%s%n%n%b a..b: the messages, oldest first
GitLogRange(a, b) == IF Valid(a) /\ Valid(b) THEN Ok(RangeCommits(a, b)) ELSE Failed

\* git log --no-merges --pretty=format:%s c ^c^: the subject of commit c
GitLogOne(c) == IF Valid(c) /\ Resolve(c) \in DOMAIN Parent THEN Ok(c) ELSE Failed

NoDiff == [format |-> "None", from |-> <<>>, to |-> <<>>, rev |-> ""]

(***************************************************************************)
(* make_diff, _set_guesses, diff and diff_between_revisions.  An operator  *)
(* that runs commands returns st = "ok" with its value, or st = "die" when *)
(* a command run without ignore_errors failed.                             *)
(***************************************************************************)
\* make_diff (git.py:364-383) with make_svn_diff's result (git.py:391-394, 439)
MakeDiff(ancestor, commit) ==
    LET d == GitDiff(ancestor, commit)
        r == GitSvnFindRev(ancestor)
    IN  IF type = "svn" THEN
            IF ~d.ok \/ ~r.ok THEN [st |-> "die", val |-> NoDiff]
            ELSE IF r.out = "" THEN [st |-> "ok", val |-> NoDiff]
            ELSE [st |-> "ok", val |-> [format |-> "svn", from |-> d.out.from,
                                         to |-> d.out.to, rev |-> r.out]]
        ELSE IF type = "git" THEN
            IF ~d.ok THEN [st |-> "die", val |-> NoDiff]
            ELSE [st |-> "ok", val |-> [format |-> "git", from |-> d.out.from,
                                         to |-> d.out.to, rev |-> ""]]
        ELSE [st |-> "ok", val |-> NoDiff]

\* git.py:38-40: the first word of
\* "git rev-list --reverse --parents ^start_rev <self.head_ref>"
FirstCommit(start_rev) ==
    LET l == GitRevList(start_rev, head_ref)
    IN  IF ~l.ok THEN Failed
        ELSE Ok(IF l.out = <<>> THEN <<>> ELSE <<l.out[1]>>)

\* git.py:33-45: the summary to store, when one is guessed
GuessSummary(start_rev) ==
    LET s == GitLogOne(FirstCommit(start_rev).out) IN s.out

\* git.py:47-52: the description to store, when one is guessed
GuessDescription(start_rev, end_rev) == GitLogRange(start_rev, end_rev).out

\* mutant of WantsSummary: the summary is guessed over the caller's text
WantsSummaryOverText(o) == o.guess_summary

\* git.py:33 and git.py:47: whether each field is guessed
WantsSummary(o) == o.guess_summary /\ o.summary = <<>>

WantsDescription(o) == o.guess_description /\ o.description = <<>>

\* _set_guesses (git.py:30-52): the options after it, or "die"
SetGuesses(o, rev_range) ==
    LET start_rev == rev_range[1]
        end_rev   == rev_range[2]
        o1 == IF WantsSummary(o)
              THEN [o EXCEPT !.summary = GuessSummary(start_rev)] ELSE o
        o2 == IF WantsDescription(o1)
              THEN [o1 EXCEPT !.description = GuessDescription(start_rev, end_rev)]
              ELSE o1
    IN  IF WantsSummary(o) /\ ~FirstCommit(start_rev).ok
        THEN [st |-> "die", opts |-> o]
        ELSE [st |-> "ok", opts |-> o2]

\* git.py:344-346 and 444-446
HeadRefOrHead == IF head_ref # <<>> THEN head_ref ELSE HeadName

\* the state a diff operation leaves behind
Outcome(op, arg, status, mb, range, o, primary, parent) ==
    [op |-> op, arg |-> arg, status |-> status, merge_base |-> mb, range |-> range,
     opts |-> o, primary |-> primary, parent |-> parent, before |-> opts]

\* diff (git.py:338-362)
DiffCall ==
    LET pb == opts.parent_branch
        mb == GitMergeBase(upstream_branch, HeadRefOrHead)
        d1 == IF pb # <<>> THEN MakeDiff(pb, <<>>) ELSE MakeDiff(mb.out, HeadRefOrHead)
        d2 == IF pb # <<>> THEN MakeDiff(mb.out, pb) ELSE [st |-> "ok", val |-> NoDiff]
        range == <<IF pb # <<>> THEN pb ELSE mb.out, HeadName>>
        g  == SetGuesses(opts, range)
    IN  IF ~mb.ok
        THEN Outcome("diff", pb, "die", merge_base, rev_range_for_diff, opts, NoDiff, NoDiff)
        ELSE IF d1.st = "die" \/ d2.st = "die"
        THEN Outcome("diff", pb, "die", mb.out, rev_range_for_diff, opts, NoDiff, NoDiff)
        ELSE IF g.st = "die"
        THEN Outcome("diff", pb, "die", mb.out, range, g.opts, NoDiff, NoDiff)
        ELSE Outcome("diff", pb, "returned", mb.out, range, g.opts, d1.val, d2.val)

\* mutant of ParentDiffNeeded: the test of git.py:463 without its "not"
ParentDiffNeededInverted(contains_output) == contains_output # <<>>

\* git.py:463 and 479: "if not pdiff_required"
ParentDiffNeeded(contains_output) == contains_output = <<>>

\* mutant of ParentDiffRange: the parent diff runs up to the head
ParentDiffRangeToHead(mb, r) == <<mb, HeadName>>

\* git.py:464-465 and 480: the range of the parent diff
ParentDiffRange(mb, r) == <<mb, r>>

\* diff_between_revisions (git.py:441-485); revision_range is held as its
\* ':'-separated parts
DiffBetweenRevisionsCall(revision_range) ==
    LET op == "diff_between_revisions"
        mb == GitMergeBase(upstream_branch, HeadRefOrHead)
        r1 == revision_range[1]
        single == Len(revision_range) = 1
        c  == GitBranchRContains(r1)
        pr == ParentDiffRange(mb.out, r1)
        d2 == IF ParentDiffNeeded(c.out) THEN MakeDiff(pr[1], pr[2])
              ELSE [st |-> "ok", val |-> NoDiff]
        range == IF single THEN <<r1, HeadName>> ELSE <<r1, revision_range[2]>>
        g  == SetGuesses(opts, range)
        d1 == IF single THEN MakeDiff(r1, <<>>) ELSE MakeDiff(r1, revision_range[2])
    IN  IF ~mb.ok
        THEN Outcome(op, revision_range, "die", merge_base, rev_range_for_diff, opts,
                     NoDiff, NoDiff)
        ELSE IF Len(revision_range) > 2
        THEN Outcome(op, revision_range, "exception", mb.out, rev_range_for_diff, opts,
                     NoDiff, NoDiff)
        ELSE IF ~c.ok \/ d2.st = "die"
        THEN Outcome(op, revision_range, "die", mb.out, rev_range_for_diff, opts,
                     NoDiff, NoDiff)
        ELSE IF g.st = "die"
        THEN Outcome(op, revision_range, "die", mb.out, range, g.opts, NoDiff, NoDiff)
        ELSE IF d1.st = "die"
        THEN Outcome(op, revision_range, "die", mb.out, range, g.opts, NoDiff, NoDiff)
        ELSE Outcome(op, revision_range, "returned", mb.out, range, g.opts, d1.val, d2.val)

\* the effect of a diff operation on the client and the options
Apply(out) ==
    /\ last' = out
    /\ merge_base' = out.merge_base
    /\ rev_range_for_diff' = out.range
    /\ opts' = out.opts
    /\ alive' = (out.status = "returned")
    /\ UNCHANGED <<head, dirty, svn_revs>>
    /\ UNCHANGED <<svn_vars, repo_vars, self_vars, note_vars>>

ParentBranches == { <<>>, <<"c2">>, BadRev }

Revisions == { <<"c0">>, <<"c2">>, <<"c3">>, BadRev }

RevisionRanges ==
    { <<r>> : r \in Revisions } \cup (Revisions \X Revisions)
    \cup { <<r, r, r>> : r \in {<<"c2">>} }

Diff ==
    /\ alive
    /\ Apply(DiffCall)

DiffBetweenRevisions ==
    /\ alive
    /\ \E rr \in RevisionRanges : Apply(DiffBetweenRevisionsCall(rr))

(***************************************************************************)
(* update_commits_with_reviewer_info (git.py:54-111).  A note is the       *)
(* sequence of its lines and a line the sequence of its words, a space     *)
(* being a word of its own; <<>> is the note of a commit that has none.    *)
(***************************************************************************)
MaxCalls == 2

MaxFailures == 1

SP == " "

ReviewedByPrefix == <<"Reviewed-By:", SP>>

\* the review URLs of review requests 1 and 12: the first is a substring of
\* the second
Url1 == <<"http://rb/r/", "1">>

Url12 == <<"http://rb/r/", "1", "2">>

ReviewUrls == {Url1, Url12}

People == {"", "alice"}

Groups == {"", "devs"}

\* Python's "needle in line"
Contains(line, needle) ==
    \E i \in 0..(Len(line) - Len(needle)) : SubSeq(line, i + 1, i + Len(needle)) = needle

\* the perl pattern /Reviewed-By: /i
MatchesReviewedBy(line) ==
    \E i \in 1..(Len(line) - 1) :
        /\ line[i] \in {"Reviewed-By:", "reviewed-by:", "REVIEWED-BY:"}
        /\ line[i + 1] = SP

\* mutant of BuildReviewedBy: git.py:72-73 left out
BuildReviewedByNoAnd(target_people, target_groups, review_url) ==
    <<"Reviewed-By:">>
    \o (IF target_people # "" THEN <<SP, target_people>> ELSE <<>>)
    \o (IF target_groups # "" THEN <<SP, "groups:", target_groups>> ELSE <<>>)
    \o <<SP, "<">> \o review_url \o <<">">>

\* git.py:69-76: the Reviewed-By line of this call
BuildReviewedBy(target_people, target_groups, review_url) ==
    <<"Reviewed-By:">>
    \o (IF target_people # "" THEN <<SP, target_people>> ELSE <<>>)
    \o (IF target_people # "" /\ target_groups # "" THEN <<SP, "and">> ELSE <<>>)
    \o (IF target_groups # "" THEN <<SP, "groups:", target_groups>> ELSE <<>>)
    \o <<SP, "<">> \o review_url \o <<">">>

\* git notes show c (git.py:86-88): the note, or None when c has none
GitNotesShow(c) == IF notes[c] = <<>> THEN Failed ELSE Ok(notes[c])

\* git.py:89-91: the lines of the oldest commit's note that make it count as
\* annotated for this review
AnnotatedLines(output, review_url) ==
    SelectSeq(output, LAMBDA line : StartsWith(line, ReviewedByPrefix)
                                    /\ Contains(line, review_url))

\* mutant of CommitsToEdit: the annotated oldest commit is edited again
CommitsToEditAll(commits, found) == commits

\* git.py:95: the commits left to edit
CommitsToEdit(commits, found) == IF found THEN Tail(commits) ELSE commits

\* git.py:92: the line written to the commits left
LineToWrite(built, found, existing) == IF found THEN existing[1] ELSE built

\* what "git notes edit" puts in the editor's file after the note: the
\* commented template
NotesTemplate == << <<"#", SP, "Write/edit the notes for the following object:">> >>

IsComment(line) == line # <<>> /\ line[1] = "#"

\* git.py:101-103, perl -nli -e 'print unless /Reviewed-By: /i;
\*                               if (eof) { print; print q{<reviewed_by>} }'
RECURSIVE PerlEdit(_, _)
PerlEdit(buf, reviewed_by) ==
    IF buf = <<>> THEN <<>>
    ELSE (IF MatchesReviewedBy(Head(buf)) THEN <<>> ELSE <<Head(buf)>>)
         \o (IF Len(buf) = 1 THEN <<Head(buf), reviewed_by>> ELSE <<>>)
         \o PerlEdit(Tail(buf), reviewed_by)

\* git.py:105-108: the note after a successful "git notes edit" with that editor
EditNote(note, reviewed_by) ==
    SelectSeq(PerlEdit(note \o NotesTemplate, reviewed_by), LAMBDA l : ~IsComment(l))

\* mutant of EditAll: the loop stops at the first edit that fails
RECURSIVE EditAllStopAtFailure(_, _, _, _)
EditAllStopAtFailure(n, todo, reviewed_by, fails) ==
    IF todo = <<>> \/ Head(todo) \in fails THEN n
    ELSE EditAllStopAtFailure([n EXCEPT ![Head(todo)] = EditNote(n[Head(todo)], reviewed_by)],
                              Tail(todo), reviewed_by, fails)

\* the notes after the loop git.py:104-110 over todo, the edits of the commits
\* in fails failing
RECURSIVE EditAll(_, _, _, _)
EditAll(n, todo, reviewed_by, fails) ==
    IF todo = <<>> THEN n
    ELSE LET c == Head(todo)
             m == IF c \in fails THEN n
                  ELSE [n EXCEPT ![c] = EditNote(n[c], reviewed_by)]
         IN  EditAll(m, Tail(todo), reviewed_by, fails)

SeqToSet(s) == { s[i] : i \in 1..Len(s) }

\* update_commits_with_reviewer_info (git.py:54-111): the record of the call
UpdateCall(target_people, target_groups, review_url, fails) ==
    LET range   == rev_range_for_diff
        listed  == IF range = <<>> THEN Failed ELSE GitRevList(range[1], range[2])
        commits == IF listed.ok THEN listed.out ELSE <<>>
        built   == BuildReviewedBy(target_people, target_groups, review_url)
        shown   == IF commits = <<>> THEN Failed ELSE GitNotesShow(commits[1])
        lines   == IF shown.ok THEN AnnotatedLines(shown.out, review_url) ELSE <<>>
        found   == lines # <<>>
        todo    == IF commits = <<>> THEN <<>> ELSE CommitsToEdit(commits, found)
        ok      == SeqToSet(todo) \ fails
    IN  [ target_people |-> target_people, target_groups |-> target_groups,
          review_url |-> review_url, range |-> range, commits |-> commits,
          shown |-> (commits # <<>>), found |-> found,
          reviewed_by |-> IF commits = <<>> THEN built
                          ELSE LineToWrite(built, found, lines),
          edits |-> todo, ok |-> ok,
          count |-> (IF found THEN 1 ELSE 0) + Cardinality(ok) ]

UpdateCommits ==
    /\ alive
    /\ Len(calls) < MaxCalls
    /\ \E p \in People, g \in Groups, u \in ReviewUrls, f \in SUBSET Commits :
        LET call == UpdateCall(p, g, u, f)
        IN  /\ f \subseteq SeqToSet(call.edits)
            /\ Cardinality(f) <= MaxFailures
            /\ calls' = Append(calls, call)
            /\ notes' = EditAll(notes, call.edits, call.reviewed_by, f)
    /\ UNCHANGED <<svn_vars, repo_vars, self_vars, diff_vars>>

(***************************************************************************)
(* Initial states and specifications.  Each specification runs one part of *)
(* the client; the variables of the other parts stay at their idle values. *)
(***************************************************************************)
NoOptions ==
    [parent_branch |-> <<>>, guess_summary |-> FALSE, guess_description |-> FALSE,
     summary |-> <<>>, description |-> <<>>]

NoOutcome ==
    [op |-> "none", arg |-> <<>>, status |-> "none", merge_base |-> <<>>,
     range |-> <<>>, opts |-> NoOptions, primary |-> NoDiff, parent |-> NoDiff,
     before |-> NoOptions]

IdleSvn ==
    /\ sections = <<>>
    /\ diff_lines = <<>>
    /\ svn_rev = ""
    /\ svn_pc = "idle"
    /\ svn_i = 1
    /\ diff_data = <<>>
    /\ filename = <<>>
    /\ newfile = FALSE
    /\ svn_ret = "pending"

IdleRepo ==
    /\ env = NoEnv
    /\ repo_pc = "idle"
    /\ repo_ret = "pending"

IdleDiff ==
    /\ head = "c3"
    /\ dirty = FALSE
    /\ svn_revs = {}
    /\ opts = NoOptions
    /\ merge_base = <<>>
    /\ rev_range_for_diff = <<>>
    /\ alive = TRUE
    /\ last = NoOutcome

IdleNotes ==
    /\ notes = [c \in Commits |-> <<>>]
    /\ calls = <<>>

\* make_svn_diff is entered with the lines of a git diff and the bridge
\* revision of its parent_branch argument, if it has one
InitSvn ==
    /\ sections \in SectionSeqs
    /\ diff_lines = DiffOutput(sections)
    /\ svn_rev \in {"", "7"}
    /\ svn_pc = "start"
    /\ svn_i = 1
    /\ diff_data = <<>>
    /\ filename = <<>>
    /\ newfile = FALSE
    /\ svn_ret = "pending"
    /\ type = "svn" /\ upstream_branch = OriginMaster /\ head_ref = <<>>
    /\ IdleRepo /\ IdleDiff /\ IdleNotes

NextSvn == SvnFindRev \/ SvnLine \/ SvnReturn

SpecSvn == InitSvn /\ [][NextSvn]_vars

\* __init__ (git.py:17-24), before get_repository_info
InitRepo ==
    /\ env = NoEnv
    /\ repo_pc = "start"
    /\ repo_ret = "pending"
    /\ type = "unset" /\ upstream_branch = <<>> /\ head_ref = <<>>
    /\ IdleSvn /\ IdleDiff /\ IdleNotes

NextRepo == RepoFind \/ RepoSvn \/ RepoNative

SpecRepo == InitRepo /\ [][NextRepo]_vars

\* the client after get_repository_info returned repository information, in
\* a repository whose HEAD is c3 or c4
InitDiff ==
    /\ type \in {"git", "svn"}
    /\ head_ref \in HeadRefs
    /\ head \in {"c3", "c4"}
    /\ dirty \in BOOLEAN
    /\ svn_revs \in {{}, {"c0", "c1"}}
    /\ type = "git" => svn_revs = {}
    /\ opts \in [parent_branch : ParentBranches, guess_summary : BOOLEAN,
                 guess_description : BOOLEAN, summary : {<<>>, <<"user">>},
                 description : {<<>>, <<"user">>}]
    /\ upstream_branch = IF type = "svn" /\ opts.parent_branch # <<>>
                         THEN opts.parent_branch ELSE OriginMaster
    /\ merge_base = <<>>
    /\ rev_range_for_diff = <<>>
    /\ alive = TRUE
    /\ last = NoOutcome
    /\ IdleSvn /\ IdleRepo /\ IdleNotes

NextDiff == Diff \/ DiffBetweenRevisions

SpecDiff == InitDiff /\ [][NextDiff]_vars

\* the notes a commit may carry before the annotator first runs: none, a
\* line of the user's, the line of another review, a lower-case line
NoteChoices ==
    { <<>>,
      << <<"tested", SP, "on", SP, "staging">> >>,
      << BuildReviewedBy("bob", "", Url12) >>,
      << <<"reviewed-by:", SP, "carol", SP, "<">> \o Url1 \o <<">">> >> }

\* the ranges a diff operation that returned can have recorded, and None
AnnotRanges ==
    { <<>>, << <<"c1">>, HeadName >>, << <<"c2">>, HeadName >>, << <<"c3">>, HeadName >>,
      << <<"c0">>, <<"c2">> >>, << <<"c0">>, <<"c3">> >> }

\* the client on branch topic at c3, after at most one diff operation
InitAnnot ==
    /\ type = "git" /\ upstream_branch = OriginMaster
    /\ head_ref = RefsHeads \o <<"topic">>
    /\ head = "c3"
    /\ dirty = FALSE
    /\ svn_revs = {}
    /\ opts = NoOptions
    /\ rev_range_for_diff \in AnnotRanges
    /\ merge_base = IF rev_range_for_diff = <<>> THEN <<>> ELSE <<"c1">>
    /\ alive = TRUE
    /\ last = NoOutcome
    /\ notes \in { [c \in Commits |-> IF c = "c2" THEN n ELSE <<>>] : n \in NoteChoices }
    /\ calls = <<>>
    /\ IdleSvn /\ IdleRepo

NextAnnot == UpdateCommits

SpecAnnot == InitAnnot /\ [][NextAnnot]_vars

(***************************************************************************)
(* Claims about make_svn_diff (specification SpecSvn).                     *)
(***************************************************************************)
IsIndexLine(l) == l # <<>> /\ l[1] = "Index: "

IsHeaderLine(l) == StartsWith(l, Minus4) \/ StartsWith(l, Plus4)

\* the lines of the output that belong to its k-th file section: from the
\* k-th "Index:" banner up to the next one
OutputSection(out, k) ==
    LET banners == { i \in 1..Len(out) : IsIndexLine(out[i]) }
        first   == CHOOSE i \in banners : Cardinality({ j \in banners : j < i }) = k - 1
        later   == { j \in banners : j > first }
        stop    == IF later = {} THEN Len(out) + 1
                   ELSE CHOOSE j \in later : \A x \in later : j <= x
    IN  SubSeq(out, first, stop - 1)

OutputBanners(out) == Cardinality({ i \in 1..Len(out) : IsIndexLine(out[i]) })

HeadersOf(lines) == SelectSeq(lines, IsHeaderLine)

\* the two header lines the claim expects for a section
ExpectedHeaders(sec, r) ==
    CASE sec.kind = "added" ->
            << Minus4 \o sec.path \o <<"\t", "(", "revision ", "0", ")", "\n">>,
               Plus4 \o sec.path \o <<"\t", "(", "revision ", "0", ")", "\n">> >>
      [] sec.kind = "modified" ->
            << Minus4 \o sec.path \o <<"\t", "(", "revision ", r, ")", "\n">>,
               Plus4 \o sec.path \o <<"\t", "(", "working copy", ")", "\n">> >>
      [] sec.kind = "deleted" ->
            << Minus4 \o sec.path \o <<"\t", "(", "revision ", r, ")", "\n">>,
               Plus4 \o DevNull \o <<"\t", "(", "working copy", ")", "\n">> >>

HasHeaders(sec) == sec.kind \in {"added", "modified", "deleted"}

\* C4: in the translated diff every file section that has '---'/'+++'
\* headers holds exactly two header lines, '---' then '+++': both stamped
\* (revision 0) for a new file, otherwise (revision N) and (working copy),
\* whatever the sections before it were.
C4_HeaderStamping ==
    svn_ret = "diff_data" =>
        /\ OutputBanners(diff_data) = Len(sections)
        /\ \A k \in 1..Len(sections) :
              HasHeaders(sections[k]) =>
                  HeadersOf(OutputSection(diff_data, k)) = ExpectedHeaders(sections[k], svn_rev)

\* a hunk line that reads as a header: it starts with "--- " or "+++ "
HeaderLikeHunk(sec) ==
    \E i \in 1..Len(sec.hunk) : IsHeaderLine(HunkLine(sec.hunk[i]))

\* The stamping C4 describes does hold of the sections none of whose hunk
\* lines reads as a header, also after a new-file section: what breaks
\* C4_HeaderStamping is the loop taking a hunk line for a header.
SvnHeadersOfPlainSections ==
    svn_ret = "diff_data" =>
        /\ OutputBanners(diff_data) = Len(sections)
        /\ \A k \in 1..Len(sections) :
              HasHeaders(sections[k]) /\ ~HeaderLikeHunk(sections[k]) =>
                  HeadersOf(OutputSection(diff_data, k)) = ExpectedHeaders(sections[k], svn_rev)

(***************************************************************************)
(* Claims about get_repository_info (specification SpecRepo).              *)
(***************************************************************************)
ReturnedInfo == repo_pc = "done" /\ repo_ret \in {"RepositoryInfo", "SVNRepositoryInfo"}

\* C5: when get_repository_info returns repository information for a
\* repository whose SVN-bridge metadata directory is absent or empty, the
\* backend type is "git", whatever the head ref, the tracking configuration,
\* the tracking and repository_url overrides and the origin URL are.
C5_NativeWithoutBridgeMetadata ==
    ReturnedInfo /\ env.svn_dir \in {"absent", "empty"} =>
        repo_ret = "RepositoryInfo" /\ type = "git"

\* C5 witness: information is returned for a repository with an empty
\* metadata directory, a configured bridge remote, a tracking override and
\* no resolvable origin URL
C5_Witness ==
    /\ ReturnedInfo
    /\ env.svn_dir = "empty"
    /\ env.svn_remote
    /\ env.repository_url = <<>>
    /\ env.tracking # <<>>
    /\ \A r \in DOMAIN env.url_of : env.url_of[r] = <<>>
    /\ head_ref # <<>>
    /\ type = "git"

\* the case C6 is about: detection is attempted, the bridge remote is
\* configured, "git svn info" names a repository root and no URL
PartialBridgeInfo ==
    /\ repo_pc = "done"
    /\ env.repository_url = <<>>
    /\ env.svn_dir = "nonempty"
    /\ env.svn_remote
    /\ "root" \in env.svn_info
    /\ "url" \notin env.svn_info

\* C6 as stated: a repository root without a URL ends in the fatal
\* upgrade-required failure instead of native classification.
C6_PartialInfoIsFatal == PartialBridgeInfo => repo_ret = "die_upgrade"

\* the version "git svn --version" reports is older than 1.5.4
OlderThanMinimum(v) ==
    \/ v[1] < 1
    \/ v[1] = 1 /\ v[2] < 5
    \/ v[1] = 1 /\ v[2] = 5 /\ v[3] < 4

\* C6 as amended: a repository root without a URL (or without a UUID) is
\* not fatal, the call goes on to native classification and returns native
\* repository information; the upgrade-required failure is raised exactly
\* when no repository root is found, the reported bridge version is older
\* than 1.5.4 and the bridge remote is configured.
C6_PartialInfoFallsThrough ==
    repo_pc = "done" /\ env.repository_url = <<>> /\ env.svn_dir = "nonempty" =>
        /\ "root" \in env.svn_info /\ ~({"url", "uuid"} \subseteq env.svn_info) =>
              repo_ret = "RepositoryInfo" /\ type = "git"
        /\ repo_ret = "die_upgrade" <=>
              /\ "root" \notin env.svn_info
              /\ env.svn_version # <<>>
              /\ OlderThanMinimum(env.svn_version)
              /\ env.svn_remote

\* C6 witness: the partial answer was given and the call returned native
\* repository information
C6_Witness == PartialBridgeInfo /\ repo_ret = "RepositoryInfo" /\ type = "git"

(***************************************************************************)
(* Claims about diff, diff_between_revisions and _set_guesses              *)
(* (specification SpecDiff).  last is the operation that ran last.         *)
(***************************************************************************)
Returned == last.status = "returned"

SingleRevision == last.op = "diff_between_revisions" /\ Len(last.arg) = 1

DoubleRevision == last.op = "diff_between_revisions" /\ Len(last.arg) = 2

\* the revision is contained in a remote-tracking branch
InRemoteBranch(r) == Resolve(r) \in Ancestors(RemoteTip)

\* C2 as stated: in single-revision mode the parent diff is non-nil exactly
\* when R is contained in no remote-tracking branch, for both backend types.
C2_ParentDiffIffNotContained ==
    Returned /\ SingleRevision =>
        (last.parent # NoDiff <=> ~InRemoteBranch(last.arg[1]))

\* C2 as amended: in single-revision mode the parent diff is non-nil exactly
\* when R is contained in no remote-tracking branch and, with the svn-bridge
\* backend, the merge-base has a bridge revision; it is nil when R is
\* contained in a remote-tracking branch, and when the backend is svn-bridge
\* and "git svn find-rev" of the merge-base prints nothing.
C2_ParentDiffUnlessUntranslatable ==
    Returned /\ SingleRevision =>
        (last.parent # NoDiff <=>
            /\ ~InRemoteBranch(last.arg[1])
            /\ (type = "git" \/ Resolve(merge_base) \in svn_revs))

\* C2 witness: with the svn-bridge backend, a single revision contained in
\* no remote branch got a parent diff
C2_Witness ==
    /\ Returned /\ SingleRevision
    /\ type = "svn"
    /\ ~InRemoteBranch(last.arg[1])
    /\ last.parent # NoDiff

\* a patch applies to the tree it was made from, and to no other
ApplyPatch(d, tree) == IF d.from = tree THEN d.to ELSE <<"does not apply">>

\* the merge base of the upstream branch and the head, from the graph: the
\* common ancestor all common ancestors are ancestors of
IsMergeBase(c) ==
    LET common == Ancestors(Resolve(upstream_branch)) \cap Ancestors(head)
    IN  c \in common /\ common \subseteq Ancestors(c)

\* C3: a parent diff that is returned runs from merge_base(upstream_branch,
\* head) to the revision the primary diff starts at, so the parent diff and
\* then the primary diff, applied to the merge-base tree, give the tree a
\* single diff from the merge-base to the primary diff's target gives.
C3_PatchChain ==
    Returned /\ last.parent # NoDiff =>
        /\ IsMergeBase(Resolve(merge_base))
        /\ last.parent.from = TreeOf(Resolve(merge_base))
        /\ last.primary # NoDiff =>
              /\ last.parent.to = last.primary.from
              /\ ApplyPatch(last.primary,
                            ApplyPatch(last.parent, TreeOf(Resolve(merge_base))))
                 = ApplyPatch([from |-> TreeOf(Resolve(merge_base)),
                               to |-> last.primary.to],
                              TreeOf(Resolve(merge_base)))

\* C3 witness: double-revision mode returned both diffs, the parent diff
\* being a real one (the merge-base is not the first revision)
C3_Witness ==
    /\ Returned /\ DoubleRevision
    /\ last.parent # NoDiff /\ last.primary # NoDiff
    /\ last.parent.from # last.parent.to
    /\ last.primary.from # last.primary.to

\* the explicit range names a revision that does not exist, and nothing but
\* that revision can fail: the merge-base was found and no summary is guessed
NamesMissingRevision ==
    /\ last.op = "diff_between_revisions"
    /\ Len(last.arg) \in {1, 2}
    /\ \E i \in 1..Len(last.arg) : ~Valid(last.arg[i])
    /\ Valid(upstream_branch)
    /\ ~last.before.guess_summary

\* C7: for an explicit range that names a malformed or non-existent
\* revision, diff_between_revisions returns the nil sentinel and does not
\* end in a fatal error.
C7_MissingRevisionReturnsNil ==
    NamesMissingRevision =>
        /\ last.status = "returned"
        /\ alive
        /\ last.primary = NoDiff

\* C8: _set_guesses writes the summary only when guess_summary is set and
\* the summary is empty, and the description only when guess_description is
\* set and the description is empty; otherwise the field keeps the caller's
\* value, each field being decided on its own flag and value; the flags are
\* never written.
C8_GuessFrame ==
    last.op # "none" =>
        /\ ~(last.before.guess_summary /\ last.before.summary = <<>>) =>
              opts.summary = last.before.summary
        /\ ~(last.before.guess_description /\ last.before.description = <<>>) =>
              opts.description = last.before.description
        /\ Returned /\ last.before.guess_summary /\ last.before.summary = <<>> =>
              opts.summary # <<>>
        /\ ( /\ Returned
             /\ last.before.guess_description /\ last.before.description = <<>>
             /\ Resolve(rev_range_for_diff[2]) \notin Ancestors(Resolve(rev_range_for_diff[1])) )
           => opts.description # <<>>
        /\ opts.guess_summary = last.before.guess_summary
        /\ opts.guess_description = last.before.guess_description
        /\ opts.parent_branch = last.before.parent_branch

\* C8 witness: with both flags set, the empty summary was written and the
\* caller's description was kept
C8_Witness ==
    /\ Returned
    /\ last.before.guess_summary /\ last.before.guess_description
    /\ last.before.summary = <<>> /\ last.before.description = <<"user">>
    /\ opts.summary # <<>> /\ opts.description = <<"user">>

\* C9: the range recorded in rev_range_for_diff is the (ancestor, target]
\* pair the primary diff of the operation was produced over, in every mode.
C9_RecordedRangeIsDiffRange ==
    Returned /\ last.primary # NoDiff =>
        /\ last.primary.from = TreeOf(Resolve(rev_range_for_diff[1]))
        /\ last.primary.to = TreeOf(Resolve(rev_range_for_diff[2]))

(***************************************************************************)
(* Claims about update_commits_with_reviewer_info (specification           *)
(* SpecAnnot).  calls[k] records the k-th call: its arguments, the commits *)
(* of the range, whether the oldest was found annotated, the commits whose *)
(* notes it ran "git notes edit" on (edits), those whose edit succeeded    *)
(* (ok) and the count it returned.                                         *)
(***************************************************************************)
SameArguments(a, b) ==
    /\ a.target_people = b.target_people
    /\ a.target_groups = b.target_groups
    /\ a.review_url = b.review_url
    /\ a.range = b.range

EveryEditSucceeded(a) == a.ok = SeqToSet(a.edits)

\* a call and the next one, made with the same arguments after every note
\* edit of the first succeeded
Rerun(k) ==
    /\ k \in 1..(Len(calls) - 1)
    /\ SameArguments(calls[k], calls[k + 1])
    /\ EveryEditSucceeded(calls[k])

\* C1 as stated: the second call returns the count of the first and edits
\* no note, whatever the length of the range.
C1_RerunEditsNothing ==
    \A k \in 1..MaxCalls :
        Rerun(k) => /\ calls[k + 1].count = calls[k].count
                    /\ calls[k + 1].edits = <<>>

\* C1 as amended: the second call finds the oldest commit annotated, counts
\* it without editing it, and runs "git notes edit" again on every other
\* commit of the range, oldest first: it edits nothing only when the range
\* has one commit (or none), and returns the count of the first call when
\* those edits all succeed (one less for each that fails).
C1_RerunSkipsOldestOnly ==
    \A k \in 1..MaxCalls :
        Rerun(k) =>
            LET a == calls[k]
                b == calls[k + 1]
            IN  /\ a.count = Len(a.commits)
                /\ b.commits = a.commits
                /\ a.commits = <<>> => b.count = 0 /\ b.edits = <<>>
                /\ a.commits # <<>> =>
                      /\ b.found
                      /\ b.edits = Tail(a.commits)
                      /\ b.count = 1 + Cardinality(b.ok)
                      /\ b.ok \subseteq SeqToSet(b.edits)
                      /\ EveryEditSucceeded(b) => b.count = a.count
                      /\ (b.edits = <<>>) <=> (Len(a.commits) = 1)

\* C1 witness: a range of two or more commits was annotated twice with the
\* same arguments, every edit of both calls succeeding
C1_Witness ==
    /\ Rerun(1)
    /\ Len(calls[1].commits) >= 2
    /\ EveryEditSucceeded(calls[2])
    /\ calls[2].count = calls[1].count

\* the line the claim builds from the arguments of a call
OwnLine(c) ==
    IF c.target_people # "" /\ c.target_groups # "" THEN
        <<"Reviewed-By:", SP, c.target_people, SP, "and", SP, "groups:", c.target_groups,
          SP, "<">> \o c.review_url \o <<">">>
    ELSE IF c.target_people # "" THEN
        <<"Reviewed-By:", SP, c.target_people, SP, "<">> \o c.review_url \o <<">">>
    ELSE IF c.target_groups # "" THEN
        <<"Reviewed-By:", SP, "groups:", c.target_groups, SP, "<">> \o c.review_url \o <<">">>
    ELSE <<"Reviewed-By:", SP, "<">> \o c.review_url \o <<">">>

\* the Reviewed-By lines of a note, in any letter case
ReviewedByLines(note) == SelectSeq(note, MatchesReviewedBy)

\* the lines of a note that make its commit count as annotated for a review
AnnotatedFor(note, review_url) ==
    SelectSeq(note, LAMBDA l : /\ Len(l) >= 2 /\ l[1] = "Reviewed-By:" /\ l[2] = SP
                               /\ Contains(l, review_url))

LastCall == calls[Len(calls)]

EndsWith(l, suffix) ==
    Len(l) >= Len(suffix) /\ SubSeq(l, Len(l) - Len(suffix) + 1, Len(l)) = suffix

\* the line the oldest commit was found annotated by names the review of the
\* call itself, not one whose URL merely contains it
FoundForSameReview(c) ==
    c.found /\ EndsWith(c.reviewed_by, <<SP, "<">> \o c.review_url \o <<">">>)

\* C10 as stated: every commit whose note the call edited holds exactly one
\* Reviewed-By line, the one built from the call's own target_people,
\* target_groups and review reference, also when the oldest commit was found
\* annotated.
C10_OwnLineWritten ==
    calls # <<>> /\ (LastCall.found => FoundForSameReview(LastCall)) =>
        \A c \in LastCall.ok : ReviewedByLines(notes[c]) = <<OwnLine(LastCall)>>

\* C10 as amended: every commit whose note the call edited holds exactly one
\* Reviewed-By line: the one built from the call's own arguments when the
\* note of the oldest commit has no line that starts with "Reviewed-By: " and
\* contains the review URL; otherwise a copy of the first such line of the
\* oldest commit's note, whatever reviewers and review it names.
C10_OwnOrOldestLineWritten ==
    calls # <<>> =>
        LET call   == LastCall
            oldest == call.commits[1]
        IN  /\ call.ok \subseteq SeqToSet(call.commits)
            /\ call.found => /\ oldest \notin call.ok
                             /\ AnnotatedFor(notes[oldest], call.review_url) # <<>>
            /\ \A c \in call.ok :
                  ReviewedByLines(notes[c]) =
                      << IF call.found
                         THEN AnnotatedFor(notes[oldest], call.review_url)[1]
                         ELSE OwnLine(call) >>

\* C10 witness: the oldest commit was found annotated, a later commit was
\* edited and got a line that differs from the call's own
C10_Witness ==
    /\ calls # <<>>
    /\ LastCall.found
    /\ \E c \in LastCall.ok : ReviewedByLines(notes[c]) # <<OwnLine(LastCall)>>

\* the commits a recorded range lists: those reachable from its second
\* revision and not from its first, none when no range is recorded
ListedBy(range) ==
    IF range = <<>> THEN {}
    ELSE { c \in Commits : /\ Valid(range[1]) /\ Valid(range[2])
                           /\ c \in Ancestors(Resolve(range[2]))
                           /\ c \notin Ancestors(Resolve(range[1])) }

IsOldestFirst(s) == \A i, j \in 1..Len(s) : i < j => Age[s[i]] < Age[s[j]]

\* an edit of the call failed and the edit of a later commit succeeded
FailureThenSuccess(call) ==
    \E i, j \in 1..Len(call.edits) :
        i < j /\ call.edits[i] \notin call.ok /\ call.edits[j] \in call.ok

\* C11: a call made when no range is recorded, or when the recorded range
\* lists no commits, returns 0, shows no note and edits none.  Any other call
\* attempts the commits of the range oldest first, all of them but an oldest
\* commit found annotated; the note of every commit whose edit succeeded is
\* rewritten, also after an edit that failed, and no other note changes; the
\* count returned is the number of edits that succeeded plus one if the
\* oldest commit was found annotated, at most the number of commits listed.
C11_SoftFailCount ==
    [][calls' # calls =>
        LET call   == calls'[Len(calls')]
            listed == ListedBy(rev_range_for_diff)
        IN  /\ call.range = rev_range_for_diff
            /\ SeqToSet(call.commits) = listed
            /\ listed = {} => /\ call.count = 0
                              /\ ~call.shown
                              /\ call.edits = <<>>
                              /\ notes' = notes
            /\ listed # {} =>
                  /\ call.shown
                  /\ IsOldestFirst(call.commits)
                  /\ IsOldestFirst(call.edits)
                  /\ SeqToSet(call.edits) =
                        listed \ (IF call.found THEN {call.commits[1]} ELSE {})
                  /\ call.ok \subseteq SeqToSet(call.edits)
                  /\ \A c \in call.ok : notes'[c] = EditNote(notes[c], call.reviewed_by)
                  /\ \A c \in Commits \ call.ok : notes'[c] = notes[c]
                  /\ call.count = Cardinality(call.ok) + (IF call.found THEN 1 ELSE 0)
                  /\ call.count <= Cardinality(listed)]_vars

\* C11 witness: in a call that found the oldest commit annotated, the edit
\* of one commit failed, the edit of a later commit succeeded, and the count
\* is one more than the edits that succeeded
C11_Witness ==
    /\ calls # <<>>
    /\ LastCall.found
    /\ FailureThenSuccess(LastCall)
    /\ LastCall.count = 1 + Cardinality(LastCall.ok)
    /\ \A c \in LastCall.ok : ReviewedByLines(notes[c]) = <<LastCall.reviewed_by>>

(***************************************************************************)
(* Claim about the commit the guessed summary is taken from (specification *)
(* SpecDiff).  A guessed summary is the subject of one commit, held as the *)
(* ref of that commit.                                                     *)
(***************************************************************************)
\* the oldest commit reachable from the target of a range and not from its
\* ancestor, as a ref; <<>> when there is none
OldestOfRange(range) ==
    LET s == { c \in Commits : /\ c \in Ancestors(Resolve(range[2]))
                               /\ c \notin Ancestors(Resolve(range[1])) }
    IN  IF s = {} THEN <<>>
        ELSE <<CHOOSE c \in s : \A d \in s : Age[c] <= Age[d]>>

\* the operation returned after guessing the summary over a range that
\* lists at least one commit
SummaryGuessed ==
    /\ Returned
    /\ last.before.guess_summary /\ last.before.summary = <<>>
    /\ OldestOfRange(rev_range_for_diff) # <<>>

\* C12 as stated: a guessed summary is the subject of the oldest commit
\* reachable from the target of the recorded range and not from its
\* ancestor; for 'R1:R2' that is the oldest commit of (R1, R2], wherever the
\* head is.
C12_SummaryFromResolvedRange ==
    SummaryGuessed => opts.summary = OldestOfRange(rev_range_for_diff)

\* what the code does: the guessed summary is the subject of the oldest
\* commit reachable from the head ref and not from the ancestor of the range
SummaryFromHeadRef ==
    SummaryGuessed =>
        opts.summary = OldestOfRange(<<rev_range_for_diff[1], head_ref>>)

====
